---- MODULE Spec2Model ----
(***************************************************************************)
(* Model of scripts/update_scholar_publications.py: the page fetcher       *)
(* (fetch_page), the record extractor (parse_publications), the pagination *)
(* driver (collect_publications) and the output step (write_output, main). *)
(*                                                                         *)
(* Text is a sequence of one-character strings.  A response of the remote  *)
(* source is [status, body]; a body is [text, rows]: the markup outside    *)
(* the listing table and the table's rows tr.gsc_a_tr, each row being      *)
(* [has_title, title, year_text] (has_title: the row has an a.gsc_a_at).  *)
(***************************************************************************)
EXTENDS Integers, Sequences, FiniteSets, TLC

\* ------------------------------------------------------------------ bounds
\* Largest --pagesize tried (page sizes are 1..MaxPageSize).
MaxPageSize == 2
\* Largest --max-pages tried (0 = no cap).
MaxCap == 2
\* Records the remote source serves over one run, all pages together.
MaxRecords == 4
\* Longest year-cell text tried by SpecYear.
MaxYearLen == 4

\* ------------------------------------------------------------------- text
Upper == <<"A", "B", "C", "D", "E", "F", "G", "H", "I", "J", "K", "L", "M",
           "N", "O", "P", "Q", "R", "S", "T", "U", "V", "W", "X", "Y", "Z">>
LowerAlpha == <<"a", "b", "c", "d", "e", "f", "g", "h", "i", "j", "k", "l", "m",
                "n", "o", "p", "q", "r", "s", "t", "u", "v", "w", "x", "y", "z">>

\* str.lower() on one character.
LowerChar(c) ==
    IF \E i \in DOMAIN Upper : Upper[i] = c
    THEN LowerAlpha[CHOOSE i \in DOMAIN Upper : Upper[i] = c]
    ELSE c

\* str.lower()
Lower(s) == [i \in DOMAIN s |-> LowerChar(s[i])]

\* sub in s  (substring test)
Contains(s, sub) ==
    \E i \in 0..(Len(s) - Len(sub)) :
        \A j \in 1..Len(sub) : s[i + j] = sub[j]

RECURSIVE Concat(_)
\* Concatenation of a sequence of sequences.
Concat(ss) == IF ss = <<>> THEN <<>> ELSE Head(ss) \o Concat(Tail(ss))

\* All sequences over S of length at most n.
SeqsUpTo(S, n) == UNION {[1..k -> S] : k \in 0..n}

\* The literal "unusual traffic" of fetch_page.
Marker == <<"u", "n", "u", "s", "u", "a", "l", " ", "t", "r", "a", "f", "f", "i", "c">>

\* --------------------------------------------------------------- fetch_page
\* The text of a row as it stands in the markup.
RowText(row) == row.title \o row.year_text

\* response.text: the whole markup, table rows included.
ResponseText(body) == body.text \o Concat([i \in DOMAIN body.rows |-> RowText(body.rows[i])])

\* response.raise_for_status(): HTTPError for a 4xx or 5xx status.
raise_for_status(status) == IF status >= 400 /\ status < 600 THEN "HTTPError" ELSE "none"

\* A slip: the test without lower().
IsBlocked_CaseSensitive(text) == Contains(text, Marker)

\* "unusual traffic" in text.lower()
IsBlocked(text) == Contains(Lower(text), Marker)

\* What stands for the value of a call that raised.
NoBody == [text |-> <<>>, rows |-> <<>>]

\* fetch_page: the exception it raises ("none" when it returns) and what it returns.
fetch_page(response) ==
    IF raise_for_status(response.status) # "none"
    THEN [raised |-> "HTTPError", body |-> NoBody]
    ELSE IF IsBlocked(ResponseText(response.body))
         THEN [raised |-> "RuntimeError", body |-> NoBody]
         ELSE [raised |-> "none", body |-> response.body]

\* ------------------------------------------------------- parse_publications
\* Characters of a year cell: ASCII digits, an Arabic-Indic digit (a decimal
\* digit, category Nd), superscript two (a digit that is no decimal digit,
\* category No) and characters that are no digits.
AsciiDigits == {"0", "1", "2", "3"}
DecimalChars == AsciiDigits \cup {"ar3"}
DigitChars == DecimalChars \cup {"sup2"}

\* The value int() gives a decimal digit.
DigitValue(c) ==
    CASE c = "0" -> 0 [] c = "1" -> 1 [] c = "2" -> 2 [] c = "3" -> 3 [] c = "ar3" -> 3

\* str.isdigit(): non-empty and every character has the Unicode digit property.
isdigit(s) == Len(s) > 0 /\ \A i \in DOMAIN s : s[i] \in DigitChars

RECURSIVE DecimalValue(_)
DecimalValue(s) ==
    IF s = <<>> THEN 0
    ELSE 10 * DecimalValue(SubSeq(s, 1, Len(s) - 1)) + DigitValue(s[Len(s)])

\* int(s) for a text without sign, blanks or underscores: ValueError unless
\* s is non-empty and made of decimal digits.
int(s) ==
    IF Len(s) > 0 /\ \A i \in DOMAIN s : s[i] \in DecimalChars
    THEN [raised |-> "none", value |-> DecimalValue(s)]
    ELSE [raised |-> "ValueError", value |-> 0]

\* year = int(year_text) if year_text.isdigit() else 0
parse_year(year_text) ==
    IF isdigit(year_text) THEN int(year_text) ELSE [raised |-> "none", value |-> 0]

RECURSIVE parse_rows(_, _)
\* The loop over the rows: a row without title is skipped before its year is
\* looked at, and the first exception ends the loop.
parse_rows(rows, publications) ==
    IF rows = <<>> THEN [raised |-> "none", publications |-> publications]
    ELSE LET row == Head(rows)
             y == parse_year(row.year_text)
         IN  IF ~row.has_title THEN parse_rows(Tail(rows), publications)
             ELSE IF y.raised # "none"
                  THEN [raised |-> y.raised, publications |-> <<>>]
                  ELSE parse_rows(Tail(rows),
                           Append(publications, [title |-> row.title, year |-> y.value]))

parse_publications(body) == parse_rows(body.rows, <<>>)

\* ----------------------------------------------------- collect_publications
\* A slip: the key without lower().
Key_CaseSensitive(pub) == <<pub.title, pub.year>>

\* key = (pub["title"].lower(), pub["year"])
Key(pub) == <<Lower(pub.title), pub.year>>

\* A slip: the membership test left out.
AlreadySeen_Never(pub, seenKeys) == FALSE

\* key in seen
AlreadySeen(pub, seenKeys) == Key(pub) \in seenKeys

RECURSIVE Merge(_, _, _)
\* The for loop over page_publications: [seen, all_publications] afterwards.
Merge(page, seenKeys, all) ==
    IF page = <<>> THEN [seen |-> seenKeys, all_publications |-> all]
    ELSE IF AlreadySeen(Head(page), seenKeys)
         THEN Merge(Tail(page), seenKeys, all)
         ELSE Merge(Tail(page), seenKeys \cup {Key(Head(page))}, Append(all, Head(page)))

\* build_list_url: the two parameters that vary.
build_list_url(cstart, size) == [cstart |-> cstart, pagesize |-> size]

\* not page_publications
IsEmpty(page) == Len(page) = 0

\* A slip: the count of distinct keys of the page instead of its length.
IsShort_Distinct(page, size) == Cardinality({Key(page[i]) : i \in DOMAIN page}) < size

\* A slip: only a page two or more records short counts as short.
IsShort_OffByOne(page, size) == Len(page) < size - 1

\* len(page_publications) < pagesize
IsShort(page, size) == Len(page) < size

\* max_pages and pages_fetched >= max_pages
CapReached(cap, fetched) == cap # 0 /\ fetched >= cap

\* A slip: the offset advanced by one, as if it counted pages.
NextStart_ByOne(cstart, size) == cstart + 1

\* start += pagesize
NextStart(cstart, size) == cstart + size

\* ------------------------------------------------------------ write_output
\* A slip: a record is put before the records of its own year.
StaysBefore_Strict(a, pub) == a.year > pub.year

\* Descending by the key, equal keys in their original order: a stays before
\* the later record pub when its year is at least pub's.
StaysBefore(a, pub) == a.year >= pub.year

RECURSIVE InsertByYear(_, _)
\* pub put behind every record that stays before it.
InsertByYear(sorted, pub) ==
    IF sorted = <<>> THEN <<pub>>
    ELSE IF StaysBefore(Head(sorted), pub)
         THEN <<Head(sorted)>> \o InsertByYear(Tail(sorted), pub)
         ELSE <<pub>> \o sorted

RECURSIVE SortByYear(_)
\* publications.sort(key=year, reverse=True): descending and stable.
SortByYear(pubs) ==
    IF pubs = <<>> THEN <<>>
    ELSE InsertByYear(SortByYear(SubSeq(pubs, 1, Len(pubs) - 1)), pubs[Len(pubs)])

\* ------------------------------------------------------------------- state
VARIABLES
    pagesize,          \* --pagesize
    max_pages,         \* --max-pages
    pc,                \* "loop", "returned", "written" or "aborted"
    start,             \* collect_publications: start
    pages_fetched,     \* collect_publications: pages_fetched
    seen,              \* collect_publications: seen
    all_publications,  \* collect_publications: all_publications
    requested,         \* the URLs fetched so far, in order
    pages,             \* page_publications of every page parsed so far, in order
    ended_by,          \* the break taken: "none", "empty", "short" or "cap"
    raised,            \* the exception that ended the run, or "none"
    output,            \* the publications array of the output file, or NotWritten
    year_text,         \* SpecYear: the text of a year cell
    year,              \* SpecYear: what parse_year made of it
    response,          \* SpecFetch: a response
    fetched            \* SpecFetch: what fetch_page made of it

vars == <<pagesize, max_pages, pc, start, pages_fetched, seen, all_publications,
          requested, pages, ended_by, raised, output, year_text, year, response, fetched>>

driverVars == <<pagesize, max_pages, pc, start, pages_fetched, seen, all_publications,
                requested, pages, ended_by, raised, output>>
yearVars == <<year_text, year>>
fetchVars == <<response, fetched>>

NotWritten == "NotWritten"
\* year and fetched before the function has run; year_text and response
\* where the function is not exercised.
NotParsed == [raised |-> "idle", value |-> 0]
NotFetched == [raised |-> "idle", body |-> NoBody]
NoResponse == [status |-> 0, body |-> NoBody]

\* ------------------------------------------------------------------ inputs
PageSizes == 1..MaxPageSize
Caps == 0..MaxCap
Titles == {<<"A">>, <<"a">>, <<"b">>}
YearCells == {<<>>, <<"1">>, <<"sup2">>}
Rows ==
    {[has_title |-> TRUE, title |-> t, year_text |-> y] : t \in Titles, y \in YearCells}
    \cup {[has_title |-> FALSE, title |-> <<>>, year_text |-> <<"sup2">>]}
Statuses == {200, 429, 503}
OkText == <<"o", "k">>
BlockedText == <<"U", "n", "u", "s", "u", "a", "l", " ", "T", "r", "a", "f", "f", "i", "c">>

\* Records extracted so far in this run.
Served == Len(Concat(pages))

\* The pages the remote source may serve for one request: at most pagesize
\* rows, and no more rows than it has left.
RowSeqs ==
    SeqsUpTo(Rows, IF pagesize < MaxRecords - Served THEN pagesize ELSE MaxRecords - Served)

\* ------------------------------------------------------------------ driver
DriverInit ==
    /\ pagesize \in PageSizes
    /\ max_pages \in Caps
    /\ pc = "loop"
    /\ start = 0
    /\ pages_fetched = 0
    /\ seen = {}
    /\ all_publications = <<>>
    /\ requested = <<>>
    /\ pages = <<>>
    /\ ended_by = "none"
    /\ raised = "none"
    /\ output = NotWritten

\* A slip: the exception is caught and what was collected is written.
Abort_WritesPartial(exc) ==
    /\ pc' = "written"
    /\ raised' = exc
    /\ output' = SortByYear(all_publications)
    /\ UNCHANGED <<pagesize, max_pages, start, pages_fetched, seen, all_publications,
                   pages, ended_by>>

\* The exception leaves collect_publications and main: nothing else runs.
Abort(exc) ==
    /\ pc' = "aborted"
    /\ raised' = exc
    /\ UNCHANGED <<pagesize, max_pages, start, pages_fetched, seen, all_publications,
                   pages, ended_by, output>>

\* fetch_page raises.
FetchFails ==
    /\ pc = "loop"
    /\ \E status \in Statuses, text \in {OkText, BlockedText} :
         LET f == fetch_page([status |-> status, body |-> [text |-> text, rows |-> <<>>]])
         IN  /\ f.raised # "none"
             /\ requested' = Append(requested, build_list_url(start, pagesize))
             /\ Abort(f.raised)
    /\ UNCHANGED <<yearVars, fetchVars>>

\* What one pass of the loop body does with the rows served, once the page
\* is fetched.
Pass(rows, kind) ==
    LET f == fetch_page([status |-> 200, body |-> [text |-> OkText, rows |-> rows]])
        p == parse_publications(f.body)
        page == p.publications
        m == Merge(page, seen, all_publications)
    IN  /\ pc = "loop"
        /\ f.raised = "none"
        /\ requested' = Append(requested, build_list_url(start, pagesize))
        /\ IF p.raised # "none"
           THEN kind = "raise" /\ Abort(p.raised)
           ELSE /\ pages' = Append(pages, page)
                /\ UNCHANGED <<pagesize, max_pages, raised, output>>
                /\ IF IsEmpty(page)
                   THEN /\ kind = "empty"
                        /\ pc' = "returned"
                        /\ ended_by' = "empty"
                        /\ UNCHANGED <<start, pages_fetched, seen, all_publications>>
                   ELSE /\ seen' = m.seen
                        /\ all_publications' = m.all_publications
                        /\ IF IsShort(page, pagesize)
                           THEN /\ kind = "short"
                                /\ pc' = "returned"
                                /\ ended_by' = "short"
                                /\ UNCHANGED <<start, pages_fetched>>
                           ELSE /\ pages_fetched' = pages_fetched + 1
                                /\ IF CapReached(max_pages, pages_fetched + 1)
                                   THEN /\ kind = "cap"
                                        /\ pc' = "returned"
                                        /\ ended_by' = "cap"
                                        /\ UNCHANGED start
                                   ELSE /\ kind = "next"
                                        /\ pc' = "loop"
                                        /\ start' = NextStart(start, pagesize)
                                        /\ UNCHANGED ended_by
        /\ UNCHANGED <<yearVars, fetchVars>>

\* parse_publications raises.
ParseRaises == \E rows \in RowSeqs : Pass(rows, "raise")
\* The page yields no record: break.
EmptyPage == \E rows \in RowSeqs : Pass(rows, "empty")
\* The page yields fewer records than pagesize: merge, break.
ShortPage == \E rows \in RowSeqs : Pass(rows, "short")
\* A full page that reaches the cap: merge, count, break.
LastPage == \E rows \in RowSeqs : Pass(rows, "cap")
\* A full page: merge, count, advance (the sleep that follows changes no state).
NextPage == \E rows \in RowSeqs : Pass(rows, "next")

\* main: collect_publications has returned; write_output sorts and writes.
WriteOutput ==
    /\ pc = "returned"
    /\ pc' = "written"
    /\ output' = SortByYear(all_publications)
    /\ UNCHANGED <<pagesize, max_pages, start, pages_fetched, seen, all_publications,
                   requested, pages, ended_by, raised, yearVars, fetchVars>>

Init ==
    /\ DriverInit
    /\ year_text = <<>> /\ year = NotParsed
    /\ response = NoResponse /\ fetched = NotFetched

Next ==
    \/ FetchFails
    \/ ParseRaises
    \/ EmptyPage
    \/ ShortPage
    \/ LastPage
    \/ NextPage
    \/ WriteOutput

Spec == Init /\ [][Next]_vars

\* ------------------------------------------------------------ parse_year
\* The driver's variables while a single function is exercised.
DriverOff ==
    /\ pagesize = 1 /\ max_pages = 0 /\ pc = "off" /\ start = 0 /\ pages_fetched = 0
    /\ seen = {} /\ all_publications = <<>> /\ requested = <<>> /\ pages = <<>>
    /\ ended_by = "none" /\ raised = "none" /\ output = NotWritten

YearChars == {"0", "2", "3", "ar3", "sup2", "n", "/", "a"}
YearTexts == SeqsUpTo(YearChars, MaxYearLen)

YearInit ==
    /\ DriverOff
    /\ year_text \in YearTexts /\ year = NotParsed
    /\ response = NoResponse /\ fetched = NotFetched

\* Lines 93-94 on the text of one year cell.
ParseYear ==
    /\ year = NotParsed
    /\ year' = parse_year(year_text)
    /\ UNCHANGED <<driverVars, year_text, fetchVars>>

YearNext == ParseYear

SpecYear == YearInit /\ [][YearNext]_vars

\* ------------------------------------------------------------- fetch_page
Prefixes == {<<>>, <<"S", "o", "r", "r", "y", ".", " ">>}
Middles == {<<>>, Marker, <<"U", "N", "U", "S", "U", "A", "L", " ", "T", "R", "A", "F", "F", "I", "C">>, <<"U", "n", "u", "s", "u", "a", "l", " ", "T", "r", "a", "f", "f", "i", "c">>, <<"u", "n", "u", "s", "u", "a", "l", " ", " ", "t", "r", "a", "f", "f", "i", "c">>, <<"u", "n", "u", "s", "u", "a", "l", "t", "r", "a", "f", "f", "i", "c">>, <<"u", "n", "u", "s", "u", "a", "l", " ", "t", "r", "a", "f", "f", "i">>, <<"n", "u", "s", "u", "a", "l", " ", "t", "r", "a", "f", "f", "i", "c">>}
Suffixes == {<<>>, <<" ", "f", "r", "o", "m", " ", "y", "o", "u", "r", " ", "n", "e", "t", "w", "o", "r", "k">>}
FetchTexts == {p \o m \o x : p \in Prefixes, m \in Middles, x \in Suffixes}
FetchRows == {<<>>, <<[has_title |-> TRUE, title |-> <<"b">>, year_text |-> <<"1">>]>>}
Responses ==
    {[status |-> st, body |-> [text |-> t, rows |-> r]] :
        st \in Statuses, t \in FetchTexts, r \in FetchRows}

FetchInit ==
    /\ DriverOff
    /\ year_text = <<>> /\ year = NotParsed
    /\ response \in Responses /\ fetched = NotFetched

\* fetch_page on one response.
FetchPage ==
    /\ fetched = NotFetched
    /\ fetched' = fetch_page(response)
    /\ UNCHANGED <<driverVars, yearVars, response>>

FetchNext == FetchPage

SpecFetch == FetchInit /\ [][FetchNext]_vars

\* -------------------------------------------------------------- properties
\* Every record extracted so far, in the order of the pages and of the rows.
Encountered == Concat(pages)

\* The first record of sequence s that has the identity key of s[i].
FirstWithKeyOf(s, i) ==
    s[CHOOSE f \in 1..i :
        /\ Lower(s[f].title) = Lower(s[i].title) /\ s[f].year = s[i].year
        /\ \A g \in 1..(f - 1) :
              ~(Lower(s[g].title) = Lower(s[i].title) /\ s[g].year = s[i].year)]

SameIdentity(a, b) == Lower(a.title) = Lower(b.title) /\ a.year = b.year

Done == pc \in {"returned", "written"}

\* C1: once the output is written, no two of its records share the identity
\* key (lower-cased title, year), and of the records met on the pages with
\* one identity key the output holds the first one met and no other.
C1_FirstSeenOnly ==
    pc = "written" =>
        /\ \A i, j \in DOMAIN output :
              i # j => ~SameIdentity(output[i], output[j])
        /\ \A i \in DOMAIN Encountered :
              /\ \E n \in DOMAIN output : output[n] = FirstWithKeyOf(Encountered, i)
              /\ \A n \in DOMAIN output :
                    SameIdentity(output[n], Encountered[i])
                        => output[n] = FirstWithKeyOf(Encountered, i)

\* C1's case: two different records with one identity key, met on different
\* pages, and the output written.
C1_Witness ==
    /\ pc = "written"
    /\ \E m, n \in DOMAIN pages :
          /\ m < n
          /\ \E i \in DOMAIN pages[m], j \in DOMAIN pages[n] :
                SameIdentity(pages[m][i], pages[n][j]) /\ pages[m][i] # pages[n][j]

\* C2: a page with fewer records than pagesize is the last page of the run:
\* the loop has ended, its records are in the collection, and the request
\* that brought it is the last request made.
C2_ShortPageStops ==
    \A n \in DOMAIN pages :
        Len(pages[n]) < pagesize =>
            /\ Done
            /\ n = Len(pages)
            /\ Len(requested) = n
            /\ \A i \in DOMAIN pages[n] :
                  \E k \in DOMAIN all_publications :
                      SameIdentity(all_publications[k], pages[n][i])

\* C2's case: a short page that is not empty, after a full page, under a
\* cap that is not reached.
C2_Witness ==
    /\ Done
    /\ Len(pages) >= 2
    /\ pages[Len(pages)] # <<>>
    /\ Len(pages[Len(pages)]) < pagesize
    /\ max_pages >= Len(pages)

FirstPositions(s) == {i \in DOMAIN s : \A g \in 1..(i - 1) : ~SameIdentity(s[g], s[i])}

\* s without the records whose identity key an earlier record has.
Deduplicated(s) ==
    LET F == FirstPositions(s)
    IN  [n \in 1..Cardinality(F) |->
            s[CHOOSE i \in F : Cardinality({g \in F : g < i}) = n - 1]]

FetchErrors == {"HTTPError", "RuntimeError"}

\* C5: when a fetch has failed the run is aborted, the failed request is the
\* last request made (one request for every page parsed before it, and one
\* more), and no output is written.
C5_FetchFailureAborts ==
    raised \in FetchErrors =>
        /\ pc = "aborted"
        /\ output = NotWritten
        /\ Len(requested) = Len(pages) + 1

\* C5's case: a fetch fails after a page was fetched and merged.
C5_Witness ==
    /\ raised \in FetchErrors
    /\ Len(pages) >= 1
    /\ all_publications # <<>>

\* s holds the marker, letter case aside.
HasMarker(s) ==
    \E i \in 0..(Len(s) - Len(Marker)) :
        \A j \in 1..Len(Marker) : LowerChar(s[i + j]) = Marker[j]

Success(status) == status >= 200 /\ status < 300

Count(s, x) == Cardinality({i \in DOMAIN s : s[i] = x})

\* C7: the array written is a permutation of the collection returned, its
\* years never increase (so year 0 comes last), and two records of one year
\* stand in the order the collection had them in.
C7_SortedStable ==
    pc = "written" =>
        /\ Len(output) = Len(all_publications)
        /\ \A i \in DOMAIN all_publications :
              Count(output, all_publications[i]) = Count(all_publications, all_publications[i])
        /\ \A i, j \in DOMAIN output : i < j => output[i].year >= output[j].year
        /\ \A i, j \in DOMAIN all_publications :
              (i < j /\ all_publications[i].year = all_publications[j].year) =>
                  \E m, n \in DOMAIN output :
                      /\ m < n
                      /\ output[m] = all_publications[i]
                      /\ output[n] = all_publications[j]

\* C7's case: the sort moved a record, and two records share a year.
C7_Witness ==
    /\ pc = "written"
    /\ output # all_publications
    /\ \E i, j \in DOMAIN all_publications :
          i < j /\ all_publications[i].year = all_publications[j].year

\* C8: parsing the text of a year cell never raises; a text of decimal
\* digits gives its number, every other text gives 0.
C8_YearNeverRaises ==
    year # NotParsed =>
        /\ year.raised = "none"
        /\ year.value =
              IF year_text # <<>> /\ \A i \in DOMAIN year_text : year_text[i] \in DecimalChars
              THEN DecimalValue(year_text)
              ELSE 0

C10_OnlyFourEndings ==
    /\ max_pages > 0 => Len(requested) <= max_pages
    /\ pc # "loop" =>
          \/ raised \in FetchErrors
          \/ raised = "none" /\ ended_by \in {"empty", "short"}
          \/ raised = "none" /\ ended_by = "cap" /\ max_pages > 0

====
